---------------------------- MODULE Spec2Model ----------------------------
(***************************************************************************)
(* A model of the bitmap filter program: the five pixel transforms of      *)
(* src/filters2.c++ (grayscale, sepia, reflect, blur, edges), their        *)
(* image_filters:: variants, and the two main programs (src/filters2.c++   *)
(* and src/filters.cpp) that decode a bitmap, apply one transform and      *)
(* encode the result.                                                      *)
(*                                                                         *)
(* A pixel is a record [rgbtBlue, rgbtGreen, rgbtRed] of BYTEs; a grid is  *)
(* a function from row index 0..height-1 to a function from column index   *)
(* 0..width-1 to a pixel, indexed as the code indexes image[i][j].         *)
(***************************************************************************)
EXTENDS Integers, Sequences, FiniteSets, TLC

(***************************************************************************)
(* Bounds of the model.                                                    *)
(***************************************************************************)
\* The largest number of rows of a drawn grid.
MaxH == 3
\* The largest number of columns of a drawn grid.
MaxW == 4
\* The largest palette step per row and per column of a drawn pattern.
MaxStep == 2
\* The largest number of successive reflections of a client.
MaxCalls == 2
\* The largest number of option characters on a command line.
MaxOpts == 2
\* The most pixels of a grid whose loop bodies run in any order.
MaxAnyPixels == 6

(***************************************************************************)
(* IEEE-754 arithmetic.                                                    *)
(*                                                                         *)
(* A non-negative double is held exactly as three limbs <<l0, l1, l2>> of  *)
(* base 2^22, the value being (l0 + l1*2^22 + l2*2^44) * 2^-55: every      *)
(* double the sepia and grayscale expressions produce is a multiple of     *)
(* 2^-55 below 2^11.  Each operation rounds its exact result to 53         *)
(* significant bits, ties to even, as the hardware does.                   *)
(***************************************************************************)
Limb == 2^22

RECURSIVE BitLen(_)
BitLen(n) == IF n = 0 THEN 0 ELSE 1 + BitLen(n \div 2)

\* Carry propagation: the limbs of the same number, the two low ones below 2^22.
DNorm(t) ==
    LET s1 == t[2] + (t[1] \div Limb)
    IN  <<t[1] % Limb, s1 % Limb, t[3] + (s1 \div Limb)>>

\* Round to nearest, ties to even, at 53 significant bits.  sticky says that
\* the exact value lies strictly above n (a division with a remainder).
DRoundNearestEven(n, sticky) ==
    LET sh   == BitLen(n[3]) - 9
        unit == 2^sh
        half == unit \div 2
        rem  == n[1] % unit
        lsb  == (n[1] \div unit) % 2
        up   == \/ rem > half
                \/ rem = half /\ sticky
                \/ rem = half /\ lsb = 1
    IN  IF sh <= 0 THEN n
        ELSE DNorm(<<(n[1] - rem) + (IF up THEN unit ELSE 0), n[2], n[3]>>)

\* double * BYTE (the BYTE is promoted to int and converted exactly).
DMul(k, b) == DRoundNearestEven(DNorm(<<k[1] * b, k[2] * b, k[3] * b>>), FALSE)

\* double + double
DAdd(x, y) ==
    DRoundNearestEven(DNorm(<<x[1] + y[1], x[2] + y[2], x[3] + y[3]>>), FALSE)

\* Mutant: s / 3 in int (the quotient truncated before it becomes a double).
DDiv3Integer(s) == <<0, 0, (s \div 3) * 2^11>>

\* int / 3.0, for 0 <= s <= 765
DDiv3(s) ==
    LET n2 == s * 2^11
        q2 == n2 \div 3
        n1 == (n2 % 3) * Limb
        q1 == n1 \div 3
        n0 == (n1 % 3) * Limb
        q0 == n0 \div 3
    IN  DRoundNearestEven(DNorm(<<q0, q1, q2>>), n0 % 3 # 0)

\* static_cast<int>(std::round(x)): to nearest, halfway cases away from zero.
DRoundToInt(x) ==
    LET y == <<x[1], x[2], x[3] + 2^10>>
    IN  y[3] \div 2^11

\* The nine sepia coefficients: the doubles nearest to the decimal literals.
K393 == <<2751464, 3623878, 804>>
K769 == <<1040188, 3825205, 1574>>
K189 == <<3724542, 301989, 387>>
K349 == <<2550136, 3154116, 714>>
K686 == <<469764, 3892314, 1404>>
K168 == <<1912603, 268435, 344>>
K272 == <<100664, 234881, 557>>
K534 == <<536872, 2650800, 1093>>
K131 == <<2315256, 1207959, 268>>

(***************************************************************************)
(* float division total / count followed by std::round and the conversion  *)
(* to an integer, for 0 <= total <= 2295 and 1 <= count <= 9.  The         *)
(* quotient is rounded to 24 significant bits, ties to even: it is         *)
(* m * 2^-e with 2^23 <= m <= 2^24.                                        *)
(***************************************************************************)
RECURSIVE FExp(_, _, _)
FExp(total, count, e) ==
    IF (total * 2^e) \div count >= 2^23 THEN e ELSE FExp(total, count, e + 1)

\* Mutant: integer division, the fraction dropped instead of rounded.
FDivTruncate(total, count) == total \div count

FDivRound(total, count) ==
    IF total = 0 THEN 0
    ELSE LET e == FExp(total, count, 0)
             q == (total * 2^e) \div count
             r == (total * 2^e) % count
             m == q + (IF 2 * r > count \/ (2 * r = count /\ q % 2 = 1)
                       THEN 1 ELSE 0)
         IN  (m + 2^(e - 1)) \div 2^e

(***************************************************************************)
(* static_cast<int>(std::round(std::sqrt(n))) for 0 <= n <= 2 * 1020^2.    *)
(* n is an exact double; the correctly rounded square root of an integer   *)
(* below 2^22 is never within 2^-40 of a half-integer, so the result is    *)
(* the integer nearest to the real square root.                            *)
(***************************************************************************)
RECURSIVE ISqrt(_, _, _)
ISqrt(n, lo, hi) ==
    IF lo = hi THEN lo
    ELSE LET mid == (lo + hi + 1) \div 2
         IN  IF mid * mid <= n THEN ISqrt(n, mid, hi) ELSE ISqrt(n, lo, mid - 1)

RoundSqrt(n) ==
    LET r == ISqrt(n, 0, 2048)
    IN  IF n > r * r + r THEN r + 1 ELSE r


(***************************************************************************)
(* Pixels and the per-pixel transforms.                                    *)
(***************************************************************************)
RGBTRIPLE(red, green, blue) ==
    [rgbtBlue |-> blue, rgbtGreen |-> green, rgbtRed |-> red]

\* static_cast<BYTE>(v)
Byte(v) == v % 256

\* BYTE clamp(int value, int min, int max)
clamp(value, min, max) ==
    IF value < min THEN Byte(min)
    ELSE IF value > max THEN Byte(max)
    ELSE Byte(value)

StdMin(a, b) == IF b < a THEN b ELSE a
StdMax(a, b) == IF a < b THEN b ELSE a

\* The body of grayscale's inner loop.
GrayscalePixel(p) ==
    LET average == DRoundToInt(DDiv3(p.rgbtBlue + p.rgbtRed + p.rgbtGreen))
    IN  [rgbtBlue |-> Byte(average), rgbtGreen |-> Byte(average),
         rgbtRed |-> Byte(average)]

\* The body of image_filters::grayscale's inner loop.
NsGrayscalePixel(pixel) ==
    LET gray == clamp(DRoundToInt(DDiv3(pixel.rgbtRed + pixel.rgbtGreen
                                        + pixel.rgbtBlue)), 0, 255)
    IN  [rgbtBlue |-> gray, rgbtGreen |-> gray, rgbtRed |-> gray]

\* round(kr * red + kg * green + kb * blue), evaluated left to right in double.
SepiaValue(kr, kg, kb, p) ==
    DRoundToInt(DAdd(DAdd(DMul(kr, p.rgbtRed), DMul(kg, p.rgbtGreen)),
                     DMul(kb, p.rgbtBlue)))

\* The body of sepia's inner loop.
SepiaPixel(p) ==
    LET sepiaRed   == SepiaValue(K393, K769, K189, p)
        sepiaGreen == SepiaValue(K349, K686, K168, p)
        sepiaBlue  == SepiaValue(K272, K534, K131, p)
    IN  [rgbtRed   |-> Byte(StdMax(StdMin(sepiaRed, 255), 0)),
         rgbtGreen |-> Byte(StdMax(StdMin(sepiaGreen, 255), 0)),
         rgbtBlue  |-> Byte(StdMax(StdMin(sepiaBlue, 255), 0))]

\* The body of image_filters::sepia's inner loop.
NsSepiaPixel(pixel) ==
    LET sepiaRed   == SepiaValue(K393, K769, K189, pixel)
        sepiaGreen == SepiaValue(K349, K686, K168, pixel)
        sepiaBlue  == SepiaValue(K272, K534, K131, pixel)
    IN  [rgbtRed   |-> clamp(sepiaRed, 0, 255),
         rgbtGreen |-> clamp(sepiaGreen, 0, 255),
         rgbtBlue  |-> clamp(sepiaBlue, 0, 255)]

(***************************************************************************)
(* The transforms on grids.                                                *)
(***************************************************************************)
grayscale(height, width, image) ==
    [row \in 0..(height - 1) |->
        [col \in 0..(width - 1) |-> GrayscalePixel(image[row][col])]]

sepia(height, width, image) ==
    [i \in 0..(height - 1) |->
        [j \in 0..(width - 1) |-> SepiaPixel(image[i][j])]]

\* Mutant: row[a] = row[b] alone, the old row[a] lost.
SwapOverwrite(row, a, b) == [row EXCEPT ![a] = row[b]]

\* std::swap(row[a], row[b])
Swap(row, a, b) == [row EXCEPT ![a] = row[b], ![b] = row[a]]

\* Mutant: the loop runs to width, so every pair is swapped twice.
RECURSIVE ReflectRowFullWidth(_, _, _)
ReflectRowFullWidth(row, width, j) ==
    IF j < width
    THEN ReflectRowFullWidth([row EXCEPT ![j] = row[width - j - 1],
                                         ![width - j - 1] = row[j]],
                             width, j + 1)
    ELSE row

\* reflect's inner loop, from column j on.
RECURSIVE ReflectRow(_, _, _)
ReflectRow(row, width, j) ==
    IF j < width \div 2
    THEN ReflectRow(Swap(row, j, width - j - 1), width, j + 1)
    ELSE row

reflect(height, width, image) ==
    [i \in 0..(height - 1) |-> ReflectRow(image[i], width, 0)]

\* Mutant: cells outside the grid are counted (as black) instead of skipped.
RECURSIVE BlurTotalsZeroPadded(_, _, _, _, _, _)
BlurTotalsZeroPadded(height, width, image, i, j, k) ==
    IF k = 9
    THEN [totalRed |-> 0, totalGreen |-> 0, totalBlue |-> 0, pixelCount |-> 0]
    ELSE LET neighborX == i + ((k \div 3) - 1)
             neighborY == j + ((k % 3) - 1)
             t == BlurTotalsZeroPadded(height, width, image, i, j, k + 1)
         IN  IF /\ neighborX >= 0 /\ neighborX < height
                /\ neighborY >= 0 /\ neighborY < width
             THEN [totalRed   |-> t.totalRed + image[neighborX][neighborY].rgbtRed,
                   totalGreen |-> t.totalGreen + image[neighborX][neighborY].rgbtGreen,
                   totalBlue  |-> t.totalBlue + image[neighborX][neighborY].rgbtBlue,
                   pixelCount |-> t.pixelCount + 1]
             ELSE [t EXCEPT !.pixelCount = t.pixelCount + 1]

\* blur's 3x3 loop, from kernel cell k on (dx outer, dy inner): the totals
\* of the cells inside the grid, and how many there are.
RECURSIVE BlurTotals(_, _, _, _, _, _)
BlurTotals(height, width, image, i, j, k) ==
    IF k = 9
    THEN [totalRed |-> 0, totalGreen |-> 0, totalBlue |-> 0, pixelCount |-> 0]
    ELSE LET neighborX == i + ((k \div 3) - 1)
             neighborY == j + ((k % 3) - 1)
             t == BlurTotals(height, width, image, i, j, k + 1)
         IN  IF /\ neighborX >= 0 /\ neighborX < height
                /\ neighborY >= 0 /\ neighborY < width
             THEN [totalRed   |-> t.totalRed + image[neighborX][neighborY].rgbtRed,
                   totalGreen |-> t.totalGreen + image[neighborX][neighborY].rgbtGreen,
                   totalBlue  |-> t.totalBlue + image[neighborX][neighborY].rgbtBlue,
                   pixelCount |-> t.pixelCount + 1]
             ELSE t

BlurPixel(height, width, image, i, j) ==
    LET t == BlurTotals(height, width, image, i, j, 0)
    IN  [rgbtRed   |-> Byte(FDivRound(t.totalRed, t.pixelCount)),
         rgbtGreen |-> Byte(FDivRound(t.totalGreen, t.pixelCount)),
         rgbtBlue  |-> Byte(FDivRound(t.totalBlue, t.pixelCount))]

\* Every pixel of copy is computed from image; copy then replaces image.
blur(height, width, image) ==
    [i \in 0..(height - 1) |->
        [j \in 0..(width - 1) |-> BlurPixel(height, width, image, i, j)]]

\* Mutant: the last weight of the horizontal kernel mistyped.
GxMistyped == <<-1, 0, 1, -2, 0, 2, -1, 0, 2>>

\* Mutant: the vertical kernel typed as a copy of the horizontal one.
GyCopyOfGx == <<-1, 0, 1, -2, 0, 2, -1, 0, 1>>

\* The Sobel kernels, as the arrays of edges (kernel_position + 1 indexes them).
Gx == <<-1, 0, 1, -2, 0, 2, -1, 0, 1>>
Gy == <<-1, -2, -1, 0, 0, 0, 1, 2, 1>>

\* edges' 3x3 loop, from kernel_position on (y outer, x inner).
RECURSIVE EdgeSums(_, _, _, _, _, _)
EdgeSums(height, width, image, i, j, kernel_position) ==
    IF kernel_position = 9
    THEN [GxRed |-> 0, GxBlue |-> 0, GxGreen |-> 0,
          GyRed |-> 0, GyBlue |-> 0, GyGreen |-> 0]
    ELSE LET y == (i - 1) + (kernel_position \div 3)
             x == (j - 1) + (kernel_position % 3)
             s == EdgeSums(height, width, image, i, j, kernel_position + 1)
         IN  IF ~(x < 0 \/ x >= width \/ y < 0 \/ y >= height)
             THEN [GxRed   |-> s.GxRed + image[y][x].rgbtRed * Gx[kernel_position + 1],
                   GxBlue  |-> s.GxBlue + image[y][x].rgbtBlue * Gx[kernel_position + 1],
                   GxGreen |-> s.GxGreen + image[y][x].rgbtGreen * Gx[kernel_position + 1],
                   GyRed   |-> s.GyRed + image[y][x].rgbtRed * Gy[kernel_position + 1],
                   GyBlue  |-> s.GyBlue + image[y][x].rgbtBlue * Gy[kernel_position + 1],
                   GyGreen |-> s.GyGreen + image[y][x].rgbtGreen * Gy[kernel_position + 1]]
             ELSE s

\* Mutant: the cap at 255 left out, so the BYTE conversion wraps.
EdgeValueUncapped(gx, gy) == RoundSqrt(gx * gx + gy * gy)

\* round(sqrt(gx^2 + gy^2)), capped at 255
EdgeValue(gx, gy) ==
    LET v == RoundSqrt(gx * gx + gy * gy)
    IN  IF v > 255 THEN 255 ELSE v

EdgePixel(height, width, image, i, j) ==
    LET s == EdgeSums(height, width, image, i, j, 0)
    IN  [rgbtRed   |-> Byte(EdgeValue(s.GxRed, s.GyRed)),
         rgbtBlue  |-> Byte(EdgeValue(s.GxBlue, s.GyBlue)),
         rgbtGreen |-> Byte(EdgeValue(s.GxGreen, s.GyGreen))]

edges(height, width, image) ==
    [i \in 0..(height - 1) |->
        [j \in 0..(width - 1) |-> EdgePixel(height, width, image, i, j)]]

(***************************************************************************)
(* blur and edges one loop body at a time: where a body reads the          *)
(* neighbourhood from and where it stores the pixel it computed.           *)
(***************************************************************************)
\* Mutant: the neighbourhood read from the buffer the results go to.
NeighbourhoodFromCopy(image, copy) == copy

\* The grid the 3x3 loops index: image[neighborX][neighborY], image[y][x].
Neighbourhood(image, copy) == image

\* Mutant: the computed pixel stored into the grid being read.
StoreInPlace(image, copy, i, j, value) ==
    [image |-> [image EXCEPT ![i][j] = value], copy |-> copy]

\* copy[i][j] = value: the grid and the buffer after a body's three stores.
Store(image, copy, i, j, value) ==
    [image |-> image, copy |-> [copy EXCEPT ![i][j] = value]]

(***************************************************************************)
(* namespace image_filters: the transforms that take the grid alone.       *)
(***************************************************************************)
Size(v) == Cardinality(DOMAIN v)

NsGrayscale(image) ==
    IF Size(image) = 0 THEN image
    ELSE [r \in DOMAIN image |->
            [c \in DOMAIN image[r] |-> NsGrayscalePixel(image[r][c])]]

NsSepia(image) ==
    [r \in DOMAIN image |->
        [c \in DOMAIN image[r] |-> NsSepiaPixel(image[r][c])]]

\* std::reverse(row.begin(), row.end())
StdReverse(row) == [c \in DOMAIN row |-> row[(Size(row) - 1) - c]]

NsReflect(image) == [r \in DOMAIN image |-> StdReverse(image[r])]

inBounds(x, y, height, width) == x >= 0 /\ x < height /\ y >= 0 /\ y < width

\* image_filters::blur's 3x3 loop, from kernel cell k on.
RECURSIVE NsBlurTotals(_, _, _, _, _, _)
NsBlurTotals(height, width, image, i, j, k) ==
    IF k = 9
    THEN [totalRed |-> 0, totalGreen |-> 0, totalBlue |-> 0, count |-> 0]
    ELSE LET nx == i + ((k \div 3) - 1)
             ny == j + ((k % 3) - 1)
             t == NsBlurTotals(height, width, image, i, j, k + 1)
         IN  IF inBounds(nx, ny, height, width)
             THEN [totalRed   |-> t.totalRed + image[nx][ny].rgbtRed,
                   totalGreen |-> t.totalGreen + image[nx][ny].rgbtGreen,
                   totalBlue  |-> t.totalBlue + image[nx][ny].rgbtBlue,
                   count      |-> t.count + 1]
             ELSE t

\* Mutant: the mean taken by integer division, the fraction dropped.
NsBlurPixelIntegerDivision(height, width, image, i, j) ==
    LET t == NsBlurTotals(height, width, image, i, j, 0)
    IN  [rgbtRed   |-> clamp(t.totalRed \div t.count, 0, 255),
         rgbtGreen |-> clamp(t.totalGreen \div t.count, 0, 255),
         rgbtBlue  |-> clamp(t.totalBlue \div t.count, 0, 255)]

NsBlurPixel(height, width, image, i, j) ==
    LET t == NsBlurTotals(height, width, image, i, j, 0)
    IN  [rgbtRed   |-> clamp(FDivRound(t.totalRed, t.count), 0, 255),
         rgbtGreen |-> clamp(FDivRound(t.totalGreen, t.count), 0, 255),
         rgbtBlue  |-> clamp(FDivRound(t.totalBlue, t.count), 0, 255)]

NsBlur(image) ==
    IF Size(image) = 0 THEN image
    ELSE LET height == Size(image)
             width  == Size(image[0])
         IN  [i \in 0..(height - 1) |->
                [j \in 0..(width - 1) |-> NsBlurPixel(height, width, image, i, j)]]

(***************************************************************************)
(* The inputs the model draws from.                                        *)
(***************************************************************************)
Black == RGBTRIPLE(0, 0, 0)
White == RGBTRIPLE(255, 255, 255)

\* Colours of the drawn grids: black, white, and colours whose channel sums
\* and sepia products fall on and off the rounding boundaries.
Palette == << Black, White, RGBTRIPLE(100, 150, 200), RGBTRIPLE(6, 57, 81),
              RGBTRIPLE(10, 21, 31), RGBTRIPLE(255, 0, 1) >>

PaletteSize == Len(Palette)

\* A grid whose colour advances by a palette steps per row and b per column.
PatternGrid(h, w, c, a, b) ==
    [i \in 0..(h - 1) |->
        [j \in 0..(w - 1) |-> Palette[((c + a * i + b * j) % PaletteSize) + 1]]]

\* A black grid with the single pixel (r, c) set to p.
OneHotGrid(h, w, r, c, p) ==
    [i \in 0..(h - 1) |->
        [j \in 0..(w - 1) |-> IF i = r /\ j = c THEN p ELSE Black]]

PatternGrids(h, w) ==
    { PatternGrid(h, w, c, a, b) :
        c \in 0..(PaletteSize - 1), a \in 0..MaxStep, b \in 0..MaxStep }

OneHotGrids(h, w) ==
    { OneHotGrid(h, w, rc[1], rc[2], p) :
        rc \in (0..(h - 1)) \X (0..(w - 1)),
        p \in {White, RGBTRIPLE(102, 102, 102)} }

Grids(h, w) == PatternGrids(h, w) \cup OneHotGrids(h, w)

\* Option characters a command line may carry; "x" is in no filter string.
OptChars == {"b", "g", "r", "s", "e", "x"}

RECURSIVE SeqsUpTo(_, _)
SeqsUpTo(S, n) ==
    IF n = 0 THEN {<<>>}
    ELSE LET shorter == SeqsUpTo(S, n - 1)
         IN  shorter \cup { Append(q, x) : q \in shorter, x \in S }

(***************************************************************************)
(* State.                                                                  *)
(***************************************************************************)
VARIABLES
    pc,        \* position in main, or "lib" for a client of the transforms
    variant,   \* which main runs: "filters2" (src/filters2.c++) or "filters"
    opts,      \* the option characters of argv, in order
    nfiles,    \* the number of non-option arguments of argv
    filter,    \* main's char filter
    inptr,     \* "closed", "open" or "failed"
    outptr,    \* "closed", "open" or "failed"
    bf,        \* BITMAPFILEHEADER as read
    bi,        \* BITMAPINFOHEADER as read
    pixels,    \* the pixel data of the input file
    height,
    width,
    image,
    i,         \* loop index of main's scanline loops
    out,       \* what has been written to the output file, in order
    calls,     \* the transforms invoked so far, in order
    hist,      \* hist[k] is the grid handed to the k-th call
    budget,    \* how many calls a client of the transforms makes
    ret,       \* main's return value, -1 while it has not returned
    copy,      \* the local buffer of blur and edges, <<>> outside them
    progress,  \* progress[<<r, c>>]: loop bodies already executed at pixel (r, c)
    inorder    \* whether the bodies ran in the order of the for loops so far

vars == << pc, variant, opts, nfiles, filter, inptr, outptr, bf, bi, pixels,
           height, width, image, i, out, calls, hist, budget, ret,
           copy, progress, inorder >>

\* The variables of a transform that runs one loop body at a time.
loopVars == << copy, progress, inorder >>

mainVars == << variant, opts, nfiles, filter, inptr, outptr, bf, bi, pixels,
               i, out, ret >>

NoBf == [bfType |-> 0, bfOffBits |-> 0]
NoBi == [biSize |-> 0, biBitCount |-> 0, biCompression |-> 0,
         biHeight |-> 0, biWidth |-> 0]

(***************************************************************************)
(* Invoking a transform: the grid is replaced by the transform's result,   *)
(* and the call is recorded with the grid it was handed, the number of     *)
(* scanlines decoded and the number of items written when it was made.     *)
(***************************************************************************)
Invoke(name, result) ==
    /\ image' = result
    /\ calls' = Append(calls, [name |-> name, decoded |-> i, written |-> Len(out)])
    /\ hist' = Append(hist, image)

(***************************************************************************)
(* A client of the transforms: it holds a grid and calls transforms on it. *)
(***************************************************************************)
ClientReady == pc = "lib" /\ Len(calls) < budget

CallGrayscale ==
    /\ ClientReady
    /\ Invoke("grayscale", grayscale(height, width, image))
    /\ UNCHANGED << pc, mainVars, height, width, budget >>
    /\ UNCHANGED loopVars

CallSepia ==
    /\ ClientReady
    /\ Invoke("sepia", sepia(height, width, image))
    /\ UNCHANGED << pc, mainVars, height, width, budget >>
    /\ UNCHANGED loopVars

CallReflect ==
    /\ ClientReady
    /\ Invoke("reflect", reflect(height, width, image))
    /\ UNCHANGED << pc, mainVars, height, width, budget >>
    /\ UNCHANGED loopVars

CallBlur ==
    /\ ClientReady
    /\ Invoke("blur", blur(height, width, image))
    /\ UNCHANGED << pc, mainVars, height, width, budget >>
    /\ UNCHANGED loopVars

CallEdges ==
    /\ ClientReady
    /\ Invoke("edges", edges(height, width, image))
    /\ UNCHANGED << pc, mainVars, height, width, budget >>
    /\ UNCHANGED loopVars

CallNsGrayscale ==
    /\ ClientReady
    /\ Invoke("image_filters::grayscale", NsGrayscale(image))
    /\ UNCHANGED << pc, mainVars, height, width, budget >>
    /\ UNCHANGED loopVars

CallNsSepia ==
    /\ ClientReady
    /\ Invoke("image_filters::sepia", NsSepia(image))
    /\ UNCHANGED << pc, mainVars, height, width, budget >>
    /\ UNCHANGED loopVars

CallNsReflect ==
    /\ ClientReady
    /\ Invoke("image_filters::reflect", NsReflect(image))
    /\ UNCHANGED << pc, mainVars, height, width, budget >>
    /\ UNCHANGED loopVars

CallNsBlur ==
    /\ ClientReady
    /\ Invoke("image_filters::blur", NsBlur(image))
    /\ UNCHANGED << pc, mainVars, height, width, budget >>
    /\ UNCHANGED loopVars

\* A client with a drawn grid and a budget of n calls.
InitClient(n) ==
    /\ pc = "lib"
    /\ variant = "filters2"
    /\ opts = <<>>
    /\ nfiles = 0
    /\ filter = "-1"
    /\ inptr = "closed"
    /\ outptr = "closed"
    /\ bf = NoBf
    /\ bi = NoBi
    /\ pixels = <<>>
    /\ height \in 0..MaxH
    /\ width \in 0..MaxW
    /\ image \in Grids(height, width)
    /\ i = 0
    /\ out = <<>>
    /\ calls = <<>>
    /\ hist = <<>>
    /\ budget = n
    /\ ret = -1
    /\ copy = <<>>
    /\ progress = <<>>
    /\ inorder = TRUE

\* One call of any transform on a drawn grid.
InitLib == InitClient(1)

NextLib ==
    \/ CallGrayscale
    \/ CallSepia
    \/ CallReflect
    \/ CallBlur
    \/ CallEdges
    \/ CallNsGrayscale
    \/ CallNsSepia
    \/ CallNsReflect
    \/ CallNsBlur

SpecLib == InitLib /\ [][NextLib]_vars

\* Up to MaxCalls reflections in succession on a drawn grid.
InitReflect == InitClient(MaxCalls)

NextReflect ==
    \/ CallReflect
    \/ CallNsReflect

SpecReflect == InitReflect /\ [][NextReflect]_vars

(***************************************************************************)
(* main.  argv is the program name, one argument "-c" per option character *)
(* c of opts, and nfiles file names.                                       *)
(***************************************************************************)
\* const char* filters: "bgrse" in src/filters2.c++, "bgrs" in src/filters.cpp
filters ==
    IF variant = "filters2" THEN {"b", "g", "r", "s", "e"}
    ELSE {"b", "g", "r", "s"}

argc == 1 + Len(opts) + nfiles

\* optind once getopt has returned -1: the index of the first file name.
optind == 1 + Len(opts)

\* The k-th call getopt(argc, argv, filters): the next option character,
\* "?" for one that filters does not hold, "-1" when none is left.
getopt(k) ==
    IF k > Len(opts) THEN "-1"
    ELSE IF opts[k] \in filters THEN opts[k]
    ELSE "?"

Exit(code) == pc' = "exit" /\ ret' = code

\* Lines 88-93: the first getopt and the validity check.
GetFilter ==
    /\ pc = "start"
    /\ filter' = getopt(1)
    /\ IF getopt(1) = "?"
       THEN Exit(1)
       ELSE pc' = "one_filter" /\ ret' = ret
    /\ UNCHANGED << variant, opts, nfiles, inptr, outptr, bf, bi, pixels,
                    height, width, image, i, out, calls, hist, budget >>
    /\ UNCHANGED loopVars

\* Lines 96-100: a second getopt must find nothing.
OnlyOneFilter ==
    /\ pc = "one_filter"
    /\ IF getopt(2) # "-1"
       THEN Exit(2)
       ELSE pc' = "usage" /\ ret' = ret
    /\ UNCHANGED << variant, opts, nfiles, filter, inptr, outptr, bf, bi,
                    pixels, height, width, image, i, out, calls, hist, budget >>
    /\ UNCHANGED loopVars

\* Lines 103-107
Usage ==
    /\ pc = "usage"
    /\ IF argc # optind + 2
       THEN Exit(3)
       ELSE pc' = "open_in" /\ ret' = ret
    /\ UNCHANGED << variant, opts, nfiles, filter, inptr, outptr, bf, bi,
                    pixels, height, width, image, i, out, calls, hist, budget >>
    /\ UNCHANGED loopVars

\* Lines 114-119: the input file opens or does not.
OpenInput ==
    /\ pc = "open_in"
    /\ \E ok \in BOOLEAN :
        IF ok
        THEN inptr' = "open" /\ pc' = "open_out" /\ ret' = ret
        ELSE inptr' = "failed" /\ Exit(4)
    /\ UNCHANGED << variant, opts, nfiles, filter, outptr, bf, bi, pixels,
                    height, width, image, i, out, calls, hist, budget >>
    /\ UNCHANGED loopVars

\* Lines 122-127: the output file is created (empty) or is not.
OpenOutput ==
    /\ pc = "open_out"
    /\ \E ok \in BOOLEAN :
        IF ok
        THEN outptr' = "open" /\ pc' = "read_headers" /\ ret' = ret
        ELSE outptr' = "failed" /\ Exit(5)
    /\ UNCHANGED << variant, opts, nfiles, filter, inptr, bf, bi, pixels,
                    height, width, image, i, out, calls, hist, budget >>
    /\ UNCHANGED loopVars

\* Header fields a file may carry: each checked field right or wrong.
FileHeaders ==
    [bfType : {19778, 0}, bfOffBits : {54, 138}]

InfoHeaders ==
    [biSize : {40, 124}, biBitCount : {24, 32}, biCompression : {0, 1},
     biHeight : (0 - MaxH)..MaxH, biWidth : (0 - 1)..MaxW]

\* Lines 130-135.  Any field values may arrive: those of the file, or, when
\* the file is shorter than the headers, whatever the structs held.
ReadHeaders ==
    /\ pc = "read_headers"
    /\ bf' \in FileHeaders
    /\ bi' \in InfoHeaders
    /\ pc' = "check_format"
    /\ UNCHANGED << variant, opts, nfiles, filter, inptr, outptr, pixels,
                    height, width, image, i, out, calls, hist, budget, ret >>
    /\ UNCHANGED loopVars

\* Mutant: the compression field is not checked.
CheckFormatNoCompression ==
    /\ pc = "check_format"
    /\ IF \/ bf.bfType # 19778
          \/ bf.bfOffBits # 54
          \/ bi.biSize # 40
          \/ bi.biBitCount # 24
       THEN pc' = "exit" /\ ret' = 6
       ELSE pc' = "allocate" /\ ret' = ret
    /\ UNCHANGED << variant, opts, nfiles, filter, inptr, outptr, bf, bi,
                    pixels, height, width, image, i, out, calls, hist, budget >>
    /\ UNCHANGED loopVars

\* Lines 138-143
CheckFormat ==
    /\ pc = "check_format"
    /\ IF \/ bf.bfType # 19778
          \/ bf.bfOffBits # 54
          \/ bi.biSize # 40
          \/ bi.biBitCount # 24
          \/ bi.biCompression # 0
       THEN Exit(6)
       ELSE pc' = "allocate" /\ ret' = ret
    /\ UNCHANGED << variant, opts, nfiles, filter, inptr, outptr, bf, bi,
                    pixels, height, width, image, i, out, calls, hist, budget >>
    /\ UNCHANGED loopVars

Abs(n) == IF n < 0 THEN 0 - n ELSE n

\* int padding = (4 - (width * sizeof(RGBTRIPLE)) % 4) % 4
padding == (4 - ((width * 3) % 4)) % 4

\* Lines 146-153: the dimensions and the grid of zeroed pixels.  A negative
\* width makes the vector's constructor throw, and main never returns.
Allocate ==
    /\ pc = "allocate"
    /\ height' = Abs(bi.biHeight)
    /\ width' = bi.biWidth
    /\ IF bi.biWidth < 0
       THEN /\ pc' = "terminated"
            /\ UNCHANGED << image, pixels >>
       ELSE /\ pc' = "read_rows"
            /\ image' = [r \in 0..(height' - 1) |-> [c \in 0..(width' - 1) |-> Black]]
            /\ pixels' \in PatternGrids(height', width')
    /\ i' = 0
    /\ UNCHANGED << variant, opts, nfiles, filter, inptr, outptr, bf, bi,
                    out, calls, hist, budget, ret >>
    /\ UNCHANGED loopVars

\* Lines 156-163: one scanline is read into row i.
ReadScanline ==
    /\ pc = "read_rows"
    /\ i < height
    /\ image' = [image EXCEPT ![i] = pixels[i]]
    /\ i' = i + 1
    /\ UNCHANGED << pc, variant, opts, nfiles, filter, inptr, outptr, bf, bi,
                    pixels, height, width, out, calls, hist, budget, ret >>
    /\ UNCHANGED loopVars

\* Lines 166-192: the switch on filter.  No case matches the char that
\* getopt's -1 becomes.
Filter ==
    /\ pc = "read_rows"
    /\ ~(i < height)
    /\ \/ filter = "b" /\ Invoke("blur", blur(height, width, image))
       \/ filter = "g" /\ Invoke("grayscale", grayscale(height, width, image))
       \/ filter = "r" /\ Invoke("reflect", reflect(height, width, image))
       \/ filter = "s" /\ Invoke("sepia", sepia(height, width, image))
       \/ /\ filter = "e"
          /\ variant = "filters2"
          /\ Invoke("edges", edges(height, width, image))
       \/ /\ filter \notin {"b", "g", "r", "s", "e"}
          /\ UNCHANGED << image, calls, hist >>
    /\ pc' = "write_bf"
    /\ UNCHANGED << variant, opts, nfiles, filter, inptr, outptr, bf, bi,
                    pixels, height, width, i, out, budget, ret >>
    /\ UNCHANGED loopVars

\* Line 195
WriteFileHeader ==
    /\ pc = "write_bf"
    /\ out' = Append(out, [kind |-> "BITMAPFILEHEADER", data |-> bf])
    /\ pc' = "write_bi"
    /\ UNCHANGED << variant, opts, nfiles, filter, inptr, outptr, bf, bi,
                    pixels, height, width, image, i, calls, hist, budget, ret >>
    /\ UNCHANGED loopVars

\* Line 198
WriteInfoHeader ==
    /\ pc = "write_bi"
    /\ out' = Append(out, [kind |-> "BITMAPINFOHEADER", data |-> bi])
    /\ pc' = "write_rows"
    /\ i' = 0
    /\ UNCHANGED << variant, opts, nfiles, filter, inptr, outptr, bf, bi,
                    pixels, height, width, image, calls, hist, budget, ret >>
    /\ UNCHANGED loopVars

\* Lines 201-211: row i and its padding bytes are written.
WriteRow ==
    /\ pc = "write_rows"
    /\ i < height
    /\ out' = Append(out, [kind |-> "row", data |-> image[i], pad |-> padding])
    /\ i' = i + 1
    /\ UNCHANGED << pc, variant, opts, nfiles, filter, inptr, outptr, bf, bi,
                    pixels, height, width, image, calls, hist, budget, ret >>
    /\ UNCHANGED loopVars

\* Line 214
Return0 ==
    /\ pc = "write_rows"
    /\ ~(i < height)
    /\ Exit(0)
    /\ UNCHANGED << variant, opts, nfiles, filter, inptr, outptr, bf, bi,
                    pixels, height, width, image, i, out, calls, hist, budget >>
    /\ UNCHANGED loopVars

Init ==
    /\ pc = "start"
    /\ variant \in {"filters2", "filters"}
    /\ opts \in SeqsUpTo(OptChars, MaxOpts)
    /\ nfiles \in 0..3
    /\ filter = "-1"
    /\ inptr = "closed"
    /\ outptr = "closed"
    /\ bf = NoBf
    /\ bi = NoBi
    /\ pixels = <<>>
    /\ height = 0
    /\ width = 0
    /\ image = <<>>
    /\ i = 0
    /\ out = <<>>
    /\ calls = <<>>
    /\ hist = <<>>
    /\ budget = 0
    /\ ret = -1
    /\ copy = <<>>
    /\ progress = <<>>
    /\ inorder = TRUE

Next ==
    \/ GetFilter
    \/ OnlyOneFilter
    \/ Usage
    \/ OpenInput
    \/ OpenOutput
    \/ ReadHeaders
    \/ CheckFormat
    \/ Allocate
    \/ ReadScanline
    \/ Filter
    \/ WriteFileHeader
    \/ WriteInfoHeader
    \/ WriteRow
    \/ Return0

Spec == Init /\ [][Next]_vars

(***************************************************************************)
(* The five transforms of src/filters2.c++ one loop body at a time.        *)
(*                                                                         *)
(* progress[<<row, col>>] counts the loop bodies already executed at the   *)
(* pixel: blur and edges run three loops over the grid (copy, compute,     *)
(* write back), grayscale and sepia one, reflect one over the left half of *)
(* each row.  filter selects the transform as main's switch does.          *)
(***************************************************************************)
Pixels == (0..(height - 1)) \X (0..(width - 1))

\* The transform main's switch calls for a selector.
TransformOf(c) ==
    CASE c = "b" -> "blur"
      [] c = "g" -> "grayscale"
      [] c = "r" -> "reflect"
      [] c = "s" -> "sepia"
      [] c = "e" -> "edges"

\* The number of loops of the running transform that visit (row, col).
LoopsAt(row, col) ==
    IF filter \in {"b", "e"} THEN 3
    ELSE IF filter = "r" THEN (IF col < width \div 2 THEN 1 ELSE 0)
    ELSE 1

Pending == { p \in Pixels : progress[p] < LoopsAt(p[1], p[2]) }

\* The order of the nested for loops: one loop after the other, and within
\* a loop the rows in order and the columns of a row in order.
InLoopOrder(row, col) ==
    /\ pc = "body"
    /\ <<row, col>> \in Pending
    /\ \A q \in Pending :
          \/ progress[q] > progress[<<row, col>>]
          \/ /\ progress[q] = progress[<<row, col>>]
             /\ row * width + col <= q[1] * width + q[2]

\* Any order in which each pixel's bodies run one after the other and the
\* write-back of a pixel waits until every pixel has been computed.
InAnyOrder(row, col) ==
    /\ pc = "body"
    /\ <<row, col>> \in Pending
    /\ progress[<<row, col>>] = 2 => \A q \in Pixels : progress[q] >= 2

\* The function is entered; blur and edges allocate copy, zero-initialised.
EnterTransform ==
    /\ pc = "call"
    /\ pc' = "body"
    /\ copy' = IF filter \in {"b", "e"}
               THEN [row \in 0..(height - 1) |->
                        [col \in 0..(width - 1) |-> Black]]
               ELSE <<>>
    /\ progress' = [p \in Pixels |-> 0]
    /\ hist' = Append(hist, image)
    /\ UNCHANGED << mainVars, height, width, image, calls, budget, inorder >>

\* The n-th loop's body runs at (row, col).
Body(row, col, n) ==
    /\ pc = "body"
    /\ n < LoopsAt(row, col)
    /\ progress[<<row, col>>] = n
    /\ progress' = [progress EXCEPT ![<<row, col>>] = n + 1]
    /\ inorder' = (inorder /\ InLoopOrder(row, col))
    /\ UNCHANGED << pc, mainVars, height, width, calls, hist, budget >>

GrayscaleBody(row, col) ==
    /\ filter = "g"
    /\ Body(row, col, 0)
    /\ image' = [image EXCEPT ![row][col] = GrayscalePixel(image[row][col])]
    /\ copy' = copy

SepiaBody(row, col) ==
    /\ filter = "s"
    /\ Body(row, col, 0)
    /\ image' = [image EXCEPT ![row][col] = SepiaPixel(image[row][col])]
    /\ copy' = copy

\* std::swap(image[i][j], image[i][width - j - 1])
ReflectBody(row, col) ==
    /\ filter = "r"
    /\ Body(row, col, 0)
    /\ image' = [image EXCEPT ![row] = Swap(image[row], col, width - col - 1)]
    /\ copy' = copy

\* copy[i][j] = image[i][j]
CopyBody(row, col) ==
    /\ filter \in {"b", "e"}
    /\ Body(row, col, 0)
    /\ copy' = [copy EXCEPT ![row][col] = image[row][col]]
    /\ image' = image

BlurBody(row, col) ==
    /\ filter = "b"
    /\ Body(row, col, 1)
    /\ LET value == BlurPixel(height, width, Neighbourhood(image, copy), row, col)
           after == Store(image, copy, row, col, value)
       IN  image' = after.image /\ copy' = after.copy

EdgesBody(row, col) ==
    /\ filter = "e"
    /\ Body(row, col, 1)
    /\ LET value == EdgePixel(height, width, Neighbourhood(image, copy), row, col)
           after == Store(image, copy, row, col, value)
       IN  image' = after.image /\ copy' = after.copy

\* image[i][j] = copy[i][j]
WriteBackBody(row, col) ==
    /\ filter \in {"b", "e"}
    /\ Body(row, col, 2)
    /\ image' = [image EXCEPT ![row][col] = copy[row][col]]
    /\ copy' = copy

\* Every loop has finished; the function returns and copy is destroyed.
ReturnFromTransform ==
    /\ pc = "body"
    /\ Pending = {}
    /\ pc' = "returned"
    /\ copy' = <<>>
    /\ calls' = Append(calls, [name |-> TransformOf(filter), decoded |-> i,
                               written |-> Len(out)])
    /\ UNCHANGED << mainVars, height, width, image, hist, budget, progress,
                    inorder >>

\* The grids a transform is stepped through: the palette in diagonal bands.
StepGrids(h, w) ==
    { PatternGrid(h, w, c, 1, 2) : c \in 0..(PaletteSize - 1) }

\* A call of one of the five transforms on a drawn grid of up to maxpixels
\* pixels.
InitCall(maxpixels) ==
    /\ pc = "call"
    /\ variant = "filters2"
    /\ opts = <<>>
    /\ nfiles = 0
    /\ filter \in {"b", "g", "r", "s", "e"}
    /\ inptr = "closed"
    /\ outptr = "closed"
    /\ bf = NoBf
    /\ bi = NoBi
    /\ pixels = <<>>
    /\ height \in 0..MaxH
    /\ width \in 0..MaxW
    /\ height * width <= maxpixels
    /\ image \in StepGrids(height, width)
    /\ i = 0
    /\ out = <<>>
    /\ calls = <<>>
    /\ hist = <<>>
    /\ budget = 1
    /\ ret = -1
    /\ copy = <<>>
    /\ progress = <<>>
    /\ inorder = TRUE

\* The transforms as the code runs them: the bodies in the order of the loops.
InitLoops == InitCall(MaxH * MaxW)

LoopGrayscale == \E p \in Pixels : InLoopOrder(p[1], p[2]) /\ GrayscaleBody(p[1], p[2])
LoopSepia == \E p \in Pixels : InLoopOrder(p[1], p[2]) /\ SepiaBody(p[1], p[2])
LoopReflect == \E p \in Pixels : InLoopOrder(p[1], p[2]) /\ ReflectBody(p[1], p[2])
LoopCopy == \E p \in Pixels : InLoopOrder(p[1], p[2]) /\ CopyBody(p[1], p[2])
LoopBlur == \E p \in Pixels : InLoopOrder(p[1], p[2]) /\ BlurBody(p[1], p[2])
LoopEdges == \E p \in Pixels : InLoopOrder(p[1], p[2]) /\ EdgesBody(p[1], p[2])
LoopWriteBack == \E p \in Pixels : InLoopOrder(p[1], p[2]) /\ WriteBackBody(p[1], p[2])

NextLoops ==
    \/ EnterTransform
    \/ LoopGrayscale
    \/ LoopSepia
    \/ LoopReflect
    \/ LoopCopy
    \/ LoopBlur
    \/ LoopEdges
    \/ LoopWriteBack
    \/ ReturnFromTransform

SpecLoops == InitLoops /\ [][NextLoops]_vars

\* The same bodies run in any order, as by workers that share out the
\* pixels of a grid of up to MaxAnyPixels pixels.
InitAnyOrder == InitCall(MaxAnyPixels)

AnyGrayscale == \E p \in Pixels : InAnyOrder(p[1], p[2]) /\ GrayscaleBody(p[1], p[2])
AnySepia == \E p \in Pixels : InAnyOrder(p[1], p[2]) /\ SepiaBody(p[1], p[2])
AnyReflect == \E p \in Pixels : InAnyOrder(p[1], p[2]) /\ ReflectBody(p[1], p[2])
AnyCopy == \E p \in Pixels : InAnyOrder(p[1], p[2]) /\ CopyBody(p[1], p[2])
AnyBlur == \E p \in Pixels : InAnyOrder(p[1], p[2]) /\ BlurBody(p[1], p[2])
AnyEdges == \E p \in Pixels : InAnyOrder(p[1], p[2]) /\ EdgesBody(p[1], p[2])
AnyWriteBack == \E p \in Pixels : InAnyOrder(p[1], p[2]) /\ WriteBackBody(p[1], p[2])

NextAnyOrder ==
    \/ EnterTransform
    \/ AnyGrayscale
    \/ AnySepia
    \/ AnyReflect
    \/ AnyCopy
    \/ AnyBlur
    \/ AnyEdges
    \/ AnyWriteBack
    \/ ReturnFromTransform

SpecAnyOrder == InitAnyOrder /\ [][NextAnyOrder]_vars

(***************************************************************************)
(* Properties.                                                             *)
(*                                                                         *)
(* Before is the grid handed to the most recent call and image is what the *)
(* call left.  The reference values below are stated with exact integer    *)
(* arithmetic, independently of the operators that model the code.         *)
(***************************************************************************)
Channels == {"rgbtRed", "rgbtGreen", "rgbtBlue"}

Called(names) == calls # <<>> /\ calls[Len(calls)].name \in names

Before == hist[Len(hist)]

Rows == 0..(height - 1)
Cols == 0..(width - 1)

InGrid(y, x) == y \in Rows /\ x \in Cols

SameShape(g1, g2) ==
    /\ DOMAIN g1 = DOMAIN g2
    /\ \A r \in DOMAIN g1 : DOMAIN g1[r] = DOMAIN g2[r]

\* The sum of f over the nine offsets of a 3x3 window.
Sum9(f(_, _)) ==
    f(-1, -1) + f(-1, 0) + f(-1, 1) + f(0, -1) + f(0, 0) + f(0, 1)
    + f(1, -1) + f(1, 0) + f(1, 1)

\* v is the integer nearest to num / den, a tie going up.
IsRoundHalfUp(v, num, den) ==
    2 * den * v <= 2 * num + den /\ 2 * num + den < 2 * den * (v + 1)

\* The sum and the number of the window cells of (r, c) that lie in the grid.
WindowSum(g, r, c, ch) ==
    Sum9(LAMBDA dy, dx : IF InGrid(r + dy, c + dx) THEN g[r + dy][c + dx][ch] ELSE 0)

WindowCount(r, c) ==
    Cardinality({ yx \in ((r - 1)..(r + 1)) \X ((c - 1)..(c + 1)) : InGrid(yx[1], yx[2]) })

BlurNames == {"blur", "image_filters::blur"}

\* C1: after blur, each channel of each pixel is the mean of that channel
\* over the in-grid cells of the pixel's 3x3 window in the grid as it was
\* before the call, rounded to nearest with ties up, and lies in 0..255.
C1_BlurIsWindowMean ==
    Called(BlurNames) =>
        /\ SameShape(image, Before)
        /\ \A r \in Rows, c \in Cols, ch \in Channels :
            /\ image[r][c][ch] \in 0..255
            /\ IsRoundHalfUp(image[r][c][ch], WindowSum(Before, r, c, ch),
                             WindowCount(r, c))

\* A blur of a grid with an interior pixel, in which some border pixel's mean
\* fell exactly on a half.
C1_Witness ==
    /\ Called(BlurNames)
    /\ height >= 3 /\ width >= 3
    /\ \E r \in Rows, c \in Cols, ch \in Channels :
        /\ WindowCount(r, c) < 9
        /\ (2 * WindowSum(Before, r, c, ch)) % (2 * WindowCount(r, c))
             = WindowCount(r, c)

\* The Sobel weights as functions of the offset (dy rows, dx columns).
SobelX(dy, dx) == dx * (2 - Abs(dy))
SobelY(dy, dx) == dy * (2 - Abs(dx))

\* Channel ch of cell (y, x), 0 outside the grid.
ZeroPadded(g, y, x, ch) == IF InGrid(y, x) THEN g[y][x][ch] ELSE 0

RefGx(g, r, c, ch) ==
    Sum9(LAMBDA dy, dx : SobelX(dy, dx) * ZeroPadded(g, r + dy, c + dx, ch))

RefGy(g, r, c, ch) ==
    Sum9(LAMBDA dy, dx : SobelY(dy, dx) * ZeroPadded(g, r + dy, c + dx, ch))

\* v = min(255, round(sqrt(s))) for an integer s >= 0
IsCappedRoundSqrt(v, s) ==
    IF 4 * s > 509 * 509 THEN v = 255
    ELSE /\ v \in 0..254
         /\ 4 * s < (2 * v + 1) * (2 * v + 1)
         /\ (v = 0 \/ (2 * v - 1) * (2 * v - 1) < 4 * s)

\* C2: after edges, each channel of each pixel is min(255, round(sqrt(Gx^2 +
\* Gy^2))) with Gx, Gy the Sobel sums of that channel alone over the 3x3
\* window, cells outside the grid counting 0, read from the grid as it was
\* before the call; the sums the code accumulates are those sums.
C2_EdgesIsSobelMagnitude ==
    Called({"edges"}) =>
        /\ SameShape(image, Before)
        /\ \A r \in Rows, c \in Cols :
            LET s == EdgeSums(height, width, Before, r, c, 0)
            IN  /\ s.GxRed = RefGx(Before, r, c, "rgbtRed")
                /\ s.GyRed = RefGy(Before, r, c, "rgbtRed")
                /\ s.GxGreen = RefGx(Before, r, c, "rgbtGreen")
                /\ s.GyGreen = RefGy(Before, r, c, "rgbtGreen")
                /\ s.GxBlue = RefGx(Before, r, c, "rgbtBlue")
                /\ s.GyBlue = RefGy(Before, r, c, "rgbtBlue")
                /\ \A ch \in Channels :
                    IsCappedRoundSqrt(image[r][c][ch],
                        RefGx(Before, r, c, ch) * RefGx(Before, r, c, ch)
                        + RefGy(Before, r, c, ch) * RefGy(Before, r, c, ch))

\* An edge detection that produced a capped channel, an uncapped nonzero
\* channel and two different channels of one pixel.
C2_Witness ==
    /\ Called({"edges"})
    /\ height >= 3 /\ width >= 3
    /\ \E r \in Rows, c \in Cols : image[r][c].rgbtRed = 255
    /\ \E r \in Rows, c \in Cols : image[r][c].rgbtRed \in 1..254
    /\ \E r \in Rows, c \in Cols : image[r][c].rgbtRed # image[r][c].rgbtBlue

SepiaNames == {"sepia", "image_filters::sepia"}

\* round(num / 1000), a tie going up, capped at 255
SepiaRef(num) ==
    LET v == (2 * num + 1000) \div 2000
    IN  IF v > 255 THEN 255 ELSE v

\* C3: after sepia, each pixel's channels are min(255, round(.)) of the three
\* weighted sums of its original channels.
C3_SepiaIsRoundedMatrix ==
    Called(SepiaNames) =>
        \A r \in Rows, c \in Cols :
            LET R == Before[r][c].rgbtRed
                G == Before[r][c].rgbtGreen
                B == Before[r][c].rgbtBlue
            IN  /\ image[r][c].rgbtRed = SepiaRef(393 * R + 769 * G + 189 * B)
                /\ image[r][c].rgbtGreen = SepiaRef(349 * R + 686 * G + 168 * B)
                /\ image[r][c].rgbtBlue = SepiaRef(272 * R + 534 * G + 131 * B)

\* v is an integer nearest to num / 1000 (either one at a tie), capped at 255.
IsSepiaNearest(v, num) ==
    IF 2 * num > 509 * 1000 THEN v = 255
    ELSE v \in 0..255 /\ 2 * 1000 * v <= 2 * num + 1000 /\ 2 * num <= 2 * 1000 * v + 1000

\* What does hold of sepia: each channel is an integer nearest to the exact
\* weighted sum, and equals the exactly rounded value wherever the sum is
\* not halfway between two integers; black stays black and white becomes
\* (255, 255, 239).
SepiaUpToTies ==
    Called(SepiaNames) =>
        \A r \in Rows, c \in Cols :
            LET R == Before[r][c].rgbtRed
                G == Before[r][c].rgbtGreen
                B == Before[r][c].rgbtBlue
            IN  /\ IsSepiaNearest(image[r][c].rgbtRed, 393 * R + 769 * G + 189 * B)
                /\ IsSepiaNearest(image[r][c].rgbtGreen, 349 * R + 686 * G + 168 * B)
                /\ IsSepiaNearest(image[r][c].rgbtBlue, 272 * R + 534 * G + 131 * B)
                /\ (Before[r][c] = Black => image[r][c] = Black)
                /\ (Before[r][c] = White => image[r][c] = RGBTRIPLE(255, 255, 239))

GrayscaleNames == {"grayscale", "image_filters::grayscale"}

\* C4: after grayscale, the three channels of each pixel are equal, and equal
\* to round((R + G + B) / 3) of the pixel's original channels, in 0..255;
\* (100, 150, 200) becomes (150, 150, 150).
C4_GrayscaleIsRoundedAverage ==
    Called(GrayscaleNames) =>
        /\ SameShape(image, Before)
        /\ \A r \in Rows, c \in Cols :
            LET v == image[r][c].rgbtRed
                p == Before[r][c]
            IN  /\ image[r][c] = RGBTRIPLE(v, v, v)
                /\ v \in 0..255
                /\ IsRoundHalfUp(v, p.rgbtRed + p.rgbtGreen + p.rgbtBlue, 3)
                /\ (p = RGBTRIPLE(100, 150, 200) => v = 150)

\* A grayscale of a grid holding (100, 150, 200) and a pixel whose average
\* is rounded upwards.
C4_Witness ==
    /\ Called(GrayscaleNames)
    /\ \E r \in Rows, c \in Cols : Before[r][c] = RGBTRIPLE(100, 150, 200)
    /\ \E r \in Rows, c \in Cols :
        (Before[r][c].rgbtRed + Before[r][c].rgbtGreen + Before[r][c].rgbtBlue) % 3 = 2

ReflectNames == {"reflect", "image_filters::reflect"}

\* C5: after reflect, pixel (r, c) is the original pixel (r, width - 1 - c);
\* the rows, their lengths and their order are unchanged, and for odd width
\* the centre column is unchanged.
C5_ReflectMirrorsRows ==
    Called(ReflectNames) =>
        /\ SameShape(image, Before)
        /\ \A r \in Rows, c \in Cols : image[r][c] = Before[r][(width - 1) - c]
        /\ width % 2 = 1 =>
             \A r \in Rows : image[r][width \div 2] = Before[r][width \div 2]

\* A reflection of a grid of several rows and odd width that changed it.
C5_Witness ==
    /\ Called(ReflectNames)
    /\ height >= 2 /\ width >= 3 /\ width % 2 = 1
    /\ image # Before
    /\ image[0] # image[1]

Uniform(g) == \A r \in Rows, c \in Cols : g[r][c] = g[0][0]

\* C6 as claimed: after edges on a grid of one colour, every channel of
\* every pixel is 0.
C6_UniformGivesAllZero ==
    (Called({"edges"}) /\ Uniform(Before)) =>
        \A r \in Rows, c \in Cols : image[r][c] = Black

\* (r, c) has its whole 3x3 window inside the grid.
Interior(r, c) == r >= 1 /\ r <= height - 2 /\ c >= 1 /\ c <= width - 2

\* C6 as amended: after edges on a grid of one colour, a channel of a pixel
\* is 0 if the pixel's whole 3x3 window lies inside the grid or if that
\* channel of the colour is 0.
C6_UniformGivesZeroInside ==
    (Called({"edges"}) /\ Uniform(Before)) =>
        \A r \in Rows, c \in Cols, ch \in Channels :
            (Interior(r, c) \/ Before[0][0][ch] = 0) => image[r][c][ch] = 0

\* An edge detection of a non-black grid of one colour with an interior
\* pixel: that pixel is black and a border pixel is not.
C6_Witness ==
    /\ Called({"edges"})
    /\ height >= 3 /\ width >= 3
    /\ Uniform(Before)
    /\ Before[0][0] # Black
    /\ image[1][1] = Black
    /\ image[0][0] # Black

\* C7 as claimed: when main has returned 0, exactly one transform was
\* invoked, once, after every scanline was decoded and before anything was
\* written to the output file.
C7_ExactlyOneTransform ==
    ret = 0 =>
        /\ Len(calls) = 1
        /\ calls[1].decoded = height
        /\ calls[1].written = 0

\* The failure kinds, as properties of the command line, the files and the
\* headers.
InvalidSelector == Len(opts) >= 1 /\ opts[1] \notin filters
MoreThanOneSelector == Len(opts) >= 2
WrongArgumentCount == nfiles # 2
InputNotOpened == inptr = "failed"
OutputNotCreated == outptr = "failed"
UnsupportedBitmap ==
    \/ bf.bfType # 19778
    \/ bf.bfOffBits # 54
    \/ bi.biSize # 40
    \/ bi.biBitCount # 24
    \/ bi.biCompression # 0

\* The code of the first failing check, in the claimed order; 0 if none fails.
FirstFailure ==
    IF InvalidSelector THEN 1
    ELSE IF MoreThanOneSelector THEN 2
    ELSE IF WrongArgumentCount THEN 3
    ELSE IF InputNotOpened THEN 4
    ELSE IF OutputNotCreated THEN 5
    ELSE IF UnsupportedBitmap THEN 6
    ELSE 0

\* C8: main returns 1 for an invalid selector, 2 for more than one, 3 for a
\* wrong argument count, 4 when the input cannot be opened, 5 when the output
\* cannot be created and 6 for an unsupported bitmap, the first failing check
\* in that order deciding; on a failure no transform is invoked and nothing
\* is written to the output file.
C8_FailureExitCodes ==
    /\ ret \in (0 - 1)..6
    /\ pc = "exit" => ret = FirstFailure
    /\ ret \in 1..6 => calls = <<>> /\ out = <<>>
    /\ (calls # <<>> \/ out # <<>>) => FirstFailure = 0

\* main returned 6 on a file whose only fault is that it is compressed.
C8_Witness ==
    /\ pc = "exit"
    /\ ret = 6
    /\ bf = [bfType |-> 19778, bfOffBits |-> 54]
    /\ bi.biSize = 40 /\ bi.biBitCount = 24 /\ bi.biCompression = 1

\* C9: reflect applied twice in succession gives back the original grid.
C9_ReflectTwiceIsIdentity ==
    (/\ Len(calls) >= 2
     /\ calls[Len(calls)].name \in ReflectNames
     /\ calls[Len(calls) - 1].name \in ReflectNames)
        => image = hist[Len(hist) - 1]

\* Two reflections in succession, the first of which changed the grid.
C9_Witness ==
    /\ Len(calls) = 2
    /\ calls[1].name \in ReflectNames
    /\ calls[2].name \in ReflectNames
    /\ hist[2] # hist[1]
    /\ width >= 3

\* The number of samples the code averaged pixel (r, c) over.
SampleCount(r, c) ==
    IF calls[Len(calls)].name = "blur"
    THEN BlurTotals(height, width, Before, r, c, 0).pixelCount
    ELSE NsBlurTotals(height, width, Before, r, c, 0).count

Corner(r, c) == r \in {0, height - 1} /\ c \in {0, width - 1}
Border(r, c) == r \in {0, height - 1} \/ c \in {0, width - 1}

\* g is black except for pixel (r, c), whose three channels are equal.
SingleBright(g, r, c) ==
    /\ g[r][c].rgbtRed = g[r][c].rgbtGreen
    /\ g[r][c].rgbtRed = g[r][c].rgbtBlue
    /\ \A y \in Rows, x \in Cols : (y # r \/ x # c) => g[y][x] = Black

\* Every channel of p is round(v / n).
AllChannelsRound(p, v, n) ==
    \A ch \in Channels : IsRoundHalfUp(p[ch], v, n)

BlurSampleCounts ==
    \A r \in Rows, c \in Cols :
        /\ SampleCount(r, c) =
             (IF Corner(r, c) THEN 4 ELSE IF Border(r, c) THEN 6 ELSE 9)
        /\ (SingleBright(Before, r, c) /\ ~Border(r, c)) =>
             AllChannelsRound(image[r][c], Before[r][c].rgbtRed, 9)
        /\ (SingleBright(Before, r, c) /\ Corner(r, c)) =>
             AllChannelsRound(image[r][c], Before[r][c].rgbtRed, 4)

\* C10 as claimed: blur averages a corner pixel over 4 samples, another
\* border pixel over 6 and an interior pixel over 9; a single bright pixel
\* of value v on black becomes round(v / 9) at an interior position and
\* round(v / 4) at a corner.
C10_SampleCountsEveryGrid ==
    Called(BlurNames) => BlurSampleCounts

\* C10 as amended: the same, for grids of at least two rows and two columns.
C10_SampleCountsFrom2x2 ==
    (Called(BlurNames) /\ height >= 2 /\ width >= 2) => BlurSampleCounts

\* A blur of a grid with an interior pixel that is black except for one
\* bright corner pixel.
C10_Witness ==
    /\ Called(BlurNames)
    /\ height >= 3 /\ width >= 3
    /\ SingleBright(Before, 0, 0)
    /\ Before[0][0] # Black
    /\ image[0][0] # Before[0][0]


(***************************************************************************)
(* C11: the response of edges to a single white pixel.                     *)
(***************************************************************************)
\* g is black except for a white pixel at (r, c).
SingleWhite(g, r, c) == g = OneHotGrid(height, width, r, c, White)

Adjacent(y, x, r, c) ==
    Abs(y - r) <= 1 /\ Abs(x - c) <= 1 /\ (y # r \/ x # c)

TwoOrMoreAway(y, x, r, c) == Abs(y - r) >= 2 \/ Abs(x - c) >= 2

\* C11: after edges on a grid that is black except for one white pixel at
\* an interior position, every channel of each of the 8 pixels adjacent to
\* it is nonzero, and every channel of every pixel two or more steps away
\* from it in row or column is 0.
C11_SingleWhitePixelResponse ==
    \A r \in Rows, c \in Cols :
        (Called({"edges"}) /\ Interior(r, c) /\ SingleWhite(Before, r, c)) =>
            \A y \in Rows, x \in Cols :
                /\ Adjacent(y, x, r, c) =>
                       \A ch \in Channels : image[y][x][ch] # 0
                /\ TwoOrMoreAway(y, x, r, c) => image[y][x] = Black

\* An edge detection of such a grid that has all 8 neighbours of the white
\* pixel and a pixel two columns away from it.
C11_Witness ==
    /\ Called({"edges"})
    /\ \E r \in Rows, c \in Cols :
          /\ Interior(r, c)
          /\ SingleWhite(Before, r, c)
          /\ InGrid(r, c + 2)
          /\ image[r][c + 2] = Black
          /\ image[r + 1][c] = White
          /\ image[r - 1][c - 1] = White


(***************************************************************************)
(* C12: blur and edges read the grid as it was when the call started.      *)
(***************************************************************************)
At(g, p) == g[p[1]][p[2]]

\* blur or edges is between its first and its last loop body.
InBlurOrEdges == pc = "body" /\ filter \in {"b", "e"}

\* The pixel the running transform computes at p from the grid g.
OutputAt(g, p) ==
    IF filter = "b" THEN BlurPixel(height, width, g, p[1], p[2])
    ELSE EdgePixel(height, width, g, p[1], p[2])

\* C12: while blur or edges runs, the grid holds the values it had when the
\* call started for as long as some pixel is still to be computed; a
\* computed pixel is in the buffer copy and is the output computed from the
\* starting values; a pixel of the grid is overwritten only once every
\* pixel has been computed, and then with the buffer's pixel.
C12_ReadsSeeStartingValues ==
    InBlurOrEdges =>
        /\ (\E q \in Pixels : progress[q] < 2) => image = Before
        /\ \A p \in Pixels :
            /\ progress[p] <= 2 => At(image, p) = At(Before, p)
            /\ progress[p] >= 2 => At(copy, p) = OutputAt(Before, p)
            /\ progress[p] = 3 =>
                  /\ At(image, p) = At(copy, p)
                  /\ \A q \in Pixels : progress[q] >= 2

\* blur has computed pixel (0, 0) of a grid of at least 2x2 and not yet its
\* neighbour (0, 1): the buffer holds the blurred pixel, the grid does not.
C12_Witness ==
    /\ InBlurOrEdges
    /\ filter = "b"
    /\ height >= 2 /\ width >= 2
    /\ progress[<<0, 0>>] = 2
    /\ progress[<<0, 1>>] = 1
    /\ copy[0][0] # Before[0][0]
    /\ image[0][0] = Before[0][0]

(***************************************************************************)
(* C13: the result does not depend on the order of the loop bodies.        *)
(***************************************************************************)
\* What the transform gives when its loops run in the order of the code.
InOrderResult ==
    CASE filter = "b" -> blur(height, width, Before)
      [] filter = "g" -> grayscale(height, width, Before)
      [] filter = "r" -> reflect(height, width, Before)
      [] filter = "s" -> sepia(height, width, Before)
      [] filter = "e" -> edges(height, width, Before)

\* C13: when one of the five transforms returns after its per-pixel bodies
\* (for reflect, its per-pair swaps) ran in any order, the write-back of
\* blur and edges having waited for every pixel to be computed, the grid is
\* the one the transform gives with its bodies in the order of the loops.
C13_AnyOrderSameResult ==
    pc = "returned" => image = InOrderResult

\* blur has returned on a grid of at least two rows and two columns after
\* its bodies ran out of the order of the loops, and it changed the grid.
C13_Witness ==
    /\ pc = "returned"
    /\ filter = "b"
    /\ ~inorder
    /\ height >= 2 /\ width >= 2
    /\ image # Before


(***************************************************************************)
(* C14: the global blur against image_filters::blur.                       *)
(***************************************************************************)
\* What the other blur implementation gives on the grid handed to the call.
OtherBlur ==
    IF calls[Len(calls)].name = "blur" THEN NsBlur(Before)
    ELSE blur(height, width, Before)

\* The mean of channel ch over the window of (r, c) has fraction one half.
MeanIsTie(g, r, c, ch) ==
    (2 * WindowSum(g, r, c, ch)) % (2 * WindowCount(r, c)) = WindowCount(r, c)

HasTie(g) == \E r \in Rows, c \in Cols, ch \in Channels : MeanIsTie(g, r, c, ch)

\* C14 as claimed: a grid in which a channel mean falls on a tie is one on
\* which the results of the two blur implementations differ by 1 in a
\* channel of a pixel whose mean is a tie.
C14_BlursDifferAtTies ==
    (Called(BlurNames) /\ HasTie(Before)) =>
        \E r \in Rows, c \in Cols, ch \in Channels :
            /\ MeanIsTie(Before, r, c, ch)
            /\ Abs(image[r][c][ch] - OtherBlur[r][c][ch]) = 1

\* C14 as amended: on every grid the two blur implementations give the same
\* result, ties included.
C14_BlursAgree ==
    Called(BlurNames) => image = OtherBlur

\* A blur that changed a grid of at least 2x2 in which the mean of a channel
\* of some pixel is a tie, both implementations rounding it up.
C14_Witness ==
    /\ Called(BlurNames)
    /\ height >= 2 /\ width >= 2
    /\ image # Before
    /\ \E r \in Rows, c \in Cols, ch \in Channels :
          /\ MeanIsTie(Before, r, c, ch)
          /\ 2 * WindowCount(r, c) * image[r][c][ch]
                = 2 * WindowSum(Before, r, c, ch) + WindowCount(r, c)
          /\ OtherBlur[r][c][ch] = image[r][c][ch]

=============================================================================
